---- MODULE Spec2Model ----
(***************************************************************************)
(* A model of the video ingestion pipeline of the file-storage server:     *)
(* handlerUploadVideo (validation, staging, fast-start remux, aspect       *)
(* classification, key derivation, S3 publication, reference persistence)  *)
(* and dbVideoToSignedVideo (reference materialization).                   *)
(*                                                                         *)
(* Strings are sequences of atoms.  An atom is either a one-character      *)
(* separator ("," "/" " ") or a chunk of text that holds no separator, so  *)
(* concatenation, SplitN and TrimSpace act on them as on Go strings.       *)
(***************************************************************************)
EXTENDS Integers, Sequences, FiniteSets, TLC

VARIABLES db, writer, store, staging, run, nreq, geom, class, arg, ret, assets

vars == <<db, writer, store, staging, run, nreq, geom, class, arg, ret, assets>>

(***************************************************************************)
(* Bounds of the model.                                                    *)
(***************************************************************************)
MaxRequests == 2
NumTempNames == 2
MaxDim == 20
MaxRefLen == 4
MaxBucketLen == 3
MaxChunks == 2

Procs == {"p1", "p2"}

(***************************************************************************)
(* Strings.                                                                *)
(***************************************************************************)
RECURSIVE TrimLeft(_)
TrimLeft(s) ==
    IF s = <<>> THEN s
    ELSE IF s[1] = " " THEN TrimLeft(Tail(s)) ELSE s

RECURSIVE TrimRight(_)
TrimRight(s) ==
    IF s = <<>> THEN s
    ELSE IF s[Len(s)] = " " THEN TrimRight(SubSeq(s, 1, Len(s) - 1)) ELSE s

\* Every blank is removed, not only those at the two ends.
TrimSpace_All(s) == SelectSeq(s, LAMBDA a : a # " ")

\* strings.TrimSpace
TrimSpace(s) == TrimRight(TrimLeft(s))

IndexOf(s, a) ==
    IF \E i \in 1..Len(s) : s[i] = a
    THEN CHOOSE i \in 1..Len(s) : s[i] = a /\ \A j \in 1..(i - 1) : s[j] # a
    ELSE 0

\* strings.SplitN(s, sep, 2): at most two parts, split at the first separator.
SplitN2(s, sep) ==
    LET i == IndexOf(s, sep)
    IN  IF i = 0 THEN <<s>>
        ELSE <<SubSeq(s, 1, i - 1), SubSeq(s, i + 1, Len(s))>>

HexDigits ==
    <<"0", "1", "2", "3", "4", "5", "6", "7",
      "8", "9", "a", "b", "c", "d", "e", "f">>

\* fmt's %x of a byte array: two lower-case hex digits per byte.
RECURSIVE Hex(_)
Hex(bs) ==
    IF bs = <<>> THEN <<>>
    ELSE <<HexDigits[(bs[1] \div 16) + 1], HexDigits[(bs[1] % 16) + 1]>>
         \o Hex(Tail(bs))

(***************************************************************************)
(* Configuration and the values requests are drawn from.                   *)
(***************************************************************************)
s3Bucket == <<"tubely-private-53827">>

Users == {"alice", "bob"}
NilID == "nil"
VideoIDs == {"v1", "v0"}

\* The byte arrays the random source may deliver (the array is shortened).
RndDraws == {<<0, 1>>, <<171, 205>>}

\* The signature of a presigned URL changes with every signing request.
SigAtoms == <<"sig1", "sig2", "sig3", "sig4", "sig5", "sig6">>
Signature(req) == SigAtoms[req]

NilURL == [nil |-> TRUE, s |-> <<>>]
StrURL(s) == [nil |-> FALSE, s |-> s]

\* The zero database.Video that GetVideo returns when no row matches.
ZeroVideo == [ID |-> NilID, UserID |-> "", VideoURL |-> NilURL]

TempNames == 1..NumTempNames
TempNameAtoms == <<"0", "1", "2", "3", "4", "5", "6", "7", "8", "9">>

\* os.CreateTemp("", "tubely-upload-*.mp4"): the star replaced by a random text.
TempPath(n) == <<"tubely-upload-", TempNameAtoms[n], ".mp4">>

(***************************************************************************)
(* The staging area: a set of files, at most one per path.                 *)
(***************************************************************************)
Exists(st, path) == \E f \in st : f.path = path
Remove(st, path) == {f \in st : f.path # path}
WriteFile(st, path, c) == Remove(st, path) \cup {[path |-> path, content |-> c]}
ReadFile(st, path) == (CHOOSE f \in st : f.path = path).content

RECURSIVE RemoveAll(_, _)
RemoveAll(st, paths) ==
    IF paths = <<>> THEN st
    ELSE RemoveAll(Remove(st, paths[1]), Tail(paths))

(***************************************************************************)
(* mime.ParseMediaType on the Content-Type headers a request may carry.    *)
(***************************************************************************)
ContentTypes ==
    { <<"video/mp4">>,
      <<"Video/MP4">>,
      <<" ", "video/mp4", ";", " ", "codecs=avc1">>,
      <<"video/mp4", ";", "=">>,
      <<"image/png">>,
      <<"image/jpeg">>,
      <<"video">>,
      <<>> }

\* strings.ToLower on one atom.
ToLowerAtom(a) == IF a = "Video/MP4" THEN "video/mp4" ELSE a

ToLower(s) == [i \in 1..Len(s) |-> ToLowerAtom(s[i])]

\* checkMediaTypeDisposition: a token, alone or followed by "/" and a
\* token; the empty string is not a media type.
IsMediaType(s) ==
    s \in {<<"video/mp4">>, <<"image/png">>, <<"image/jpeg">>, <<"video">>}

\* A parameter list is a sequence of attribute=value pairs.
IsParamList(s) == TrimSpace(s) \in {<<>>, <<"codecs=avc1">>}

\* Parameters after the media type are not examined.
ParseMediaType_Lenient(h) ==
    LET parts == SplitN2(h, ";")
        base  == ToLower(TrimSpace(parts[1]))
    IN  IF ~IsMediaType(base) THEN [mediatype |-> <<>>, err |-> TRUE]
        ELSE [mediatype |-> base, err |-> FALSE]

ParseMediaType(h) ==
    LET parts == SplitN2(h, ";")
        base  == ToLower(TrimSpace(parts[1]))
    IN  IF ~IsMediaType(base) THEN [mediatype |-> <<>>, err |-> TRUE]
        ELSE IF Len(parts) = 2 /\ ~IsParamList(parts[2])
             THEN [mediatype |-> base, err |-> TRUE]
        ELSE [mediatype |-> base, err |-> FALSE]

(***************************************************************************)
(* processVideoForFastStart: the output path and the error of the tool.    *)
(***************************************************************************)
OutPath(filePath) == filePath \o <<".processing">>

\* The tool's error is dropped and the output path returned regardless.
processVideoForFastStart_NoErr(filePath, runOK) ==
    [path |-> OutPath(filePath), err |-> FALSE]

processVideoForFastStart(filePath, runOK) ==
    IF ~runOK THEN [path |-> <<>>, err |-> TRUE]
    ELSE [path |-> OutPath(filePath), err |-> FALSE]

\* What the ffmpeg process does to the staging area.  Without -y it refuses
\* to overwrite an existing output; a run that fails may or may not have
\* created the output file before it failed.
Ffmpeg(st, filePath, toolOK, leftover) ==
    LET out == OutPath(filePath)
        src == ReadFile(st, filePath)
    IN  IF Exists(st, out) THEN [ok |-> FALSE, st |-> st]
        ELSE IF toolOK
             THEN [ok |-> TRUE,
                   st |-> WriteFile(st, out, [kind |-> "faststart", req |-> src.req])]
        ELSE IF leftover
             THEN [ok |-> FALSE,
                   st |-> WriteFile(st, out, [kind |-> "partial", req |-> src.req])]
        ELSE [ok |-> FALSE, st |-> st]

(***************************************************************************)
(* getVideoAspectRatio.                                                    *)
(***************************************************************************)
Abs(x) == IF x < 0 THEN 0 - x ELSE x

\* tol = 0.02, as the fraction tolNum / tolDen.
tolNum == 2
tolDen == 100

\* The float64 comparison when w/h lies exactly tol away from n/d.  The
\* rounded difference is below the rounded tol only for 16/9 - tol (791/450:
\* 0.019999999999999796); for 16/9 + tol, 9/16 + tol and 9/16 - tol it is
\* 0.020000000000000018, above tol.
AtTolRoundsWithin(w, h, n, d) == n = 16 /\ d = 9 /\ d * w < n * h

\* math.Abs(float64(w)/float64(h) - n/d) <= tol.  In exact arithmetic
\* |w/h - n/d| = |d*w - n*h| / (d*h); float64 agrees with the exact
\* comparison except where the two sides are equal, and there the rounding
\* decides.
WithinTol(w, h, n, d) ==
    \/ tolDen * Abs(d * w - n * h) < tolNum * d * h
    \/ /\ tolDen * Abs(d * w - n * h) = tolNum * d * h
       /\ AtTolRoundsWithin(w, h, n, d)

\* The first stream with width and height > 0, or 0 if there is none.
FirstSized(streams) ==
    IF \E i \in 1..Len(streams) : streams[i].Width > 0 /\ streams[i].Height > 0
    THEN CHOOSE i \in 1..Len(streams) :
            /\ streams[i].Width > 0 /\ streams[i].Height > 0
            /\ \A j \in 1..(i - 1) : ~(streams[j].Width > 0 /\ streams[j].Height > 0)
    ELSE 0

getVideoAspectRatio(probe) ==
    IF probe.run # "ok" THEN [aspect |-> "", err |-> TRUE]
    ELSE IF probe.json # "ok" THEN [aspect |-> "", err |-> TRUE]
    ELSE IF Len(probe.streams) = 0 THEN [aspect |-> "", err |-> TRUE]
    ELSE LET i == FirstSized(probe.streams)
             w == IF i = 0 THEN 0 ELSE probe.streams[i].Width
             h == IF i = 0 THEN 0 ELSE probe.streams[i].Height
         IN  IF w = 0 \/ h = 0 THEN [aspect |-> "", err |-> TRUE]
             ELSE IF WithinTol(w, h, 16, 9) THEN [aspect |-> "16:9", err |-> FALSE]
             ELSE IF WithinTol(w, h, 9, 16) THEN [aspect |-> "9:16", err |-> FALSE]
             ELSE [aspect |-> "other", err |-> FALSE]

Stream(w, h) == [Width |-> w, Height |-> h]
ProbeOK(streams) == [run |-> "ok", json |-> "ok", streams |-> streams]

\* What the inspection tool may report for a staged file.
ProbeResults ==
    { [run |-> "err", json |-> "ok", streams |-> <<>>],
      [run |-> "ok", json |-> "bad", streams |-> <<>>],
      ProbeOK(<<>>),
      ProbeOK(<<Stream(0, 0)>>),
      ProbeOK(<<Stream(1920, 0)>>),
      ProbeOK(<<Stream(0, 0), Stream(1920, 1080)>>),
      ProbeOK(<<Stream(1920, 1080)>>),
      ProbeOK(<<Stream(608, 1080)>>),
      ProbeOK(<<Stream(640, 480)>>) }

(***************************************************************************)
(* Key derivation and the stored reference.                                *)
(***************************************************************************)
\* The two orientation prefixes exchanged.
KeyPrefix_Swapped(aspect, err) ==
    IF ~err /\ aspect = "16:9" THEN "portrait"
    ELSE IF ~err /\ aspect = "9:16" THEN "landscape"
    ELSE "other"

\* The classifier's error is not looked at: the prefix follows the aspect.
KeyPrefix_FromAspect(aspect, err) ==
    IF aspect = "16:9" THEN "landscape"
    ELSE IF aspect = "9:16" THEN "portrait"
    ELSE aspect

KeyPrefix(aspect, err) ==
    IF ~err /\ aspect = "16:9" THEN "landscape"
    ELSE IF ~err /\ aspect = "9:16" THEN "portrait"
    ELSE "other"

\* The key is a fixed name under the prefix; the random bytes are not used.
S3Key_FixedName(prefix, rnd) == <<prefix, "/", "video", ".mp4">>

\* fmt.Sprintf("%s/%x.mp4", prefix, rnd)
S3Key(prefix, rnd) == <<prefix, "/">> \o Hex(rnd) \o <<".mp4">>

\* The two parts of the reference written in the wrong order.
CommaDelimited_Swapped(bucket, key) == key \o <<",">> \o bucket

\* A public object URL is stored, as the handler did before references
\* were signed on read.
CommaDelimited_PublicURL(bucket, key) ==
    <<"https://">> \o bucket \o <<".s3.amazonaws.com", "/">> \o key

\* fmt.Sprintf("%s,%s", cfg.s3Bucket, s3Key)
CommaDelimited(bucket, key) == bucket \o <<",">> \o key

(***************************************************************************)
(* generatePresignedURL and dbVideoToSignedVideo.                          *)
(***************************************************************************)
S3Host == ".s3.amazonaws.com"
Expires == "?X-Amz-Expires=900"

generatePresignedURL(bucket, key, signOK, sig) ==
    IF ~signOK THEN [url |-> <<>>, err |-> TRUE]
    ELSE [url |-> <<"https://">> \o bucket \o <<S3Host, "/">> \o key
                  \o <<Expires, sig>>,
          err |-> FALSE]

\* The decoding with the check of the key left out.
ParseRef_KeyUnchecked(url) ==
    IF url.nil \/ TrimSpace(url.s) = <<>>
    THEN [ok |-> FALSE, bucket |-> <<>>, key |-> <<>>]
    ELSE LET parts == SplitN2(url.s, ",")
         IN  IF Len(parts) # 2
             THEN [ok |-> FALSE, bucket |-> <<>>, key |-> <<>>]
             ELSE LET bucket == TrimSpace(parts[1])
                      key    == TrimSpace(parts[2])
                  IN  IF bucket = <<>>
                      THEN [ok |-> FALSE, bucket |-> <<>>, key |-> <<>>]
                      ELSE [ok |-> TRUE, bucket |-> bucket, key |-> key]

\* The decoding of a stored "bucket,key" reference.
ParseRef(url) ==
    IF url.nil \/ TrimSpace(url.s) = <<>>
    THEN [ok |-> FALSE, bucket |-> <<>>, key |-> <<>>]
    ELSE LET parts == SplitN2(url.s, ",")
         IN  IF Len(parts) # 2
             THEN [ok |-> FALSE, bucket |-> <<>>, key |-> <<>>]
             ELSE LET bucket == TrimSpace(parts[1])
                      key    == TrimSpace(parts[2])
                  IN  IF bucket = <<>> \/ key = <<>>
                      THEN [ok |-> FALSE, bucket |-> <<>>, key |-> <<>>]
                      ELSE [ok |-> TRUE, bucket |-> bucket, key |-> key]

\* The result has the returned video, the error, and whether a signed URL
\* was requested from the store.
dbVideoToSignedVideo(video, signOK, sig) ==
    LET ref == ParseRef(video.VideoURL)
    IN  IF ~ref.ok
        THEN [video |-> video, err |-> TRUE, asked |-> FALSE]
        ELSE LET out == generatePresignedURL(ref.bucket, ref.key, signOK, sig)
             IN  IF out.err
                 THEN [video |-> video, err |-> TRUE, asked |-> TRUE]
                 ELSE [video |-> [video EXCEPT !.VideoURL = StrURL(out.url)],
                       err |-> FALSE, asked |-> TRUE]

(***************************************************************************)
(* The metadata store and the object store.                                *)
(***************************************************************************)
\* cfg.db.GetVideo: the row, or the zero Video when no row matches.
GetVideo(d, id) == IF id \in DOMAIN d THEN d[id] ELSE ZeroVideo

\* A reference already present is kept: the first write wins.
UpdateVideo_KeepFirst(d, video) ==
    IF d[video.ID].VideoURL.nil THEN [d EXCEPT ![video.ID] = video] ELSE d

\* cfg.db.UpdateVideo writes the whole record the caller holds.
UpdateVideo(d, video) == [d EXCEPT ![video.ID] = video]

\* The argument and the result of a function inspected on its own; the
\* pipeline leaves both alone.
NoCall == [called |-> FALSE]

HasObject(s, bucket, key) == \E o \in s : o.bucket = bucket /\ o.key = key

\* The object is stored under the bare file name, without the prefix.
PutObject_BareKey(s, bucket, key, body, ctype, req) ==
    {o \in s : ~(o.bucket = bucket /\ o.key = Tail(Tail(key)))}
    \cup {[bucket |-> bucket, key |-> Tail(Tail(key)), body |-> body,
           ctype |-> ctype, putBy |-> req]}

\* s3Client.PutObject: the object under (bucket, key) is replaced.
PutObject(s, bucket, key, body, ctype, req) ==
    {o \in s : ~(o.bucket = bucket /\ o.key = key)}
    \cup {[bucket |-> bucket, key |-> key, body |-> body,
           ctype |-> ctype, putBy |-> req]}

(***************************************************************************)
(* One run of handlerUploadVideo.  pc is the position in the handler; the  *)
(* fields fault, probeErr, tools, puts and recorded are the history of     *)
(* what the environment did and which effects the run issued; defect is    *)
(* what was wrong with the request as the client sent it.                  *)
(***************************************************************************)
InitRun ==
    [pc |-> "idle", kind |-> "upload", req |-> 0, caller |-> "", authed |-> FALSE, vid |-> NilID,
     defect |-> "",
     video |-> ZeroVideo, mediaType |-> <<>>,
     tempName |-> <<>>, processedPath |-> <<>>,
     rnd |-> <<>>, aspect |-> "", probeErr |-> FALSE, s3Key |-> <<>>,
     status |-> 0, msg |-> "", respURL |-> NilURL,
     fault |-> "", tools |-> {}, puts |-> 0, recorded |-> FALSE,
     size |-> 0, written |-> 0]

\* The deferred os.Remove calls registered so far, in the order they run.
Deferred(r) ==
    (IF r.processedPath # <<>> THEN <<r.processedPath>> ELSE <<>>)
    \o (IF r.tempName # <<>> THEN <<r.tempName>> ELSE <<>>)

\* A caller who is not the owner is answered 403.
Respond_Forbidden(r, code, msg) ==
    [r EXCEPT !.pc = "done", !.msg = msg,
              !.status = IF msg = "You do not own this video" THEN 403 ELSE code]

\* respondWithError / respondWithJSON followed by return.
Respond(r, code, msg) == [r EXCEPT !.pc = "done", !.status = code, !.msg = msg]

\* The ownership check left out.
NotOwner_Never(video, userID) == FALSE

\* video.UserID != userID
NotOwner(video, userID) == video.UserID # userID

\* The staged original is uploaded instead of the processed file.
UploadBody_Original(st, r) == ReadFile(st, r.tempName)

\* Body of the PutObjectInput: the processed file opened for upload.
UploadBody(st, r) == ReadFile(st, r.processedPath)

\* The headers that name the one allowed media type.
Mp4Headers ==
    { <<"video/mp4">>,
      <<"Video/MP4">>,
      <<" ", "video/mp4", ";", " ", "codecs=avc1">> }

\* What is wrong with the request as sent, in the order the handler looks:
\* the path ID, the credential, the resource, its owner.  A failing lookup
\* is a fault of the database, not a defect of the request.
RequestDefect(idOK, tok, dbOK, d, vid, caller) ==
    IF ~idOK THEN "id"
    ELSE IF tok # "good" THEN "token"
    ELSE IF ~dbOK THEN ""
    ELSE IF vid \notin DOMAIN d THEN "absent"
    ELSE IF d[vid].UserID # caller THEN "owner"
    ELSE ""

\* What is wrong with the body as sent: the form, the field, the file's type.
IntakeDefect(form, ct) ==
    IF form # "ok" THEN form
    ELSE IF ct \notin Mp4Headers THEN "ctype"
    ELSE ""

\* Path parsing, authentication, GetVideo and the ownership check.
Begin(p) ==
    /\ run[p].pc \in {"idle", "done"}
    /\ nreq < MaxRequests
    /\ \E idOK \in BOOLEAN, tok \in {"none", "bad", "good"},
          caller \in Users, vid \in VideoIDs, dbOK \in BOOLEAN :
          LET r0    == [InitRun EXCEPT !.req = nreq + 1,
                          !.defect = RequestDefect(idOK, tok, dbOK, db, vid, caller)]
              r1    == [r0 EXCEPT !.vid = vid]
              r2    == [r1 EXCEPT !.caller = caller, !.authed = TRUE]
              video == GetVideo(db, vid)
          IN  run' = [run EXCEPT ![p] =
                  IF ~idOK THEN Respond(r0, 400, "Invalid ID")
                  ELSE IF tok = "none" THEN Respond(r1, 401, "Couldn't find JWT")
                  ELSE IF tok = "bad" THEN Respond(r1, 401, "Couldn't validate JWT")
                  ELSE IF ~dbOK
                       THEN Respond([r2 EXCEPT !.fault = "lookup"], 500,
                                    "Error retrieving video")
                  ELSE IF video.ID = NilID THEN Respond(r2, 404, "Video not found")
                  ELSE IF NotOwner(video, caller)
                       THEN Respond(r2, 401, "You do not own this video")
                  ELSE [r2 EXCEPT !.pc = "intake", !.video = video]]
    /\ nreq' = nreq + 1
    /\ UNCHANGED <<db, store, staging, writer, geom, class, arg, ret, assets>>

\* MaxBytesReader, ParseMultipartForm, FormFile and the content type check.
Intake(p) ==
    /\ run[p].pc = "intake"
    /\ \E form \in {"toolarge", "malformed", "nofield", "ok"}, ct \in ContentTypes :
          LET r  == [run[p] EXCEPT !.defect = IntakeDefect(form, ct)]
              mt == ParseMediaType(ct)
          IN  run' = [run EXCEPT ![p] =
                  IF form \in {"toolarge", "malformed"}
                  THEN Respond(r, 400, "Error parsing form data")
                  ELSE IF form = "nofield"
                       THEN Respond(r, 400, "Missing or invalid 'video' file")
                  ELSE IF mt.err \/ mt.mediatype = <<>>
                       THEN Respond(r, 400, "Invalid Content-Type header")
                  ELSE IF mt.mediatype # <<"video/mp4">>
                       THEN Respond(r, 400, "Unsupported media type; only video/mp4 allowed")
                  ELSE [r EXCEPT !.pc = "stage", !.mediaType = mt.mediatype]]
    /\ UNCHANGED <<db, store, staging, nreq, writer, geom, class, arg, ret, assets>>

\* The temp file is created at the chosen name whether or not it exists.
Stage_Truncating(p) ==
    /\ run[p].pc = "stage"
    /\ \E outcome \in {"create", "copy", "seek", "ok"}, n \in TempNames :
          LET r   == run[p]
              r1  == [r EXCEPT !.tempName = TempPath(n)]
              st1 == WriteFile(staging, TempPath(n), [kind |-> "upload", req |-> r.req])
          IN  /\ TRUE
              /\ IF outcome = "create"
                 THEN /\ run' = [run EXCEPT ![p] =
                            Respond([r EXCEPT !.fault = "create"], 500,
                                    "Failed to create temp file")]
                      /\ staging' = staging
                 ELSE IF outcome = "copy"
                 THEN /\ run' = [run EXCEPT ![p] =
                            Respond([r1 EXCEPT !.fault = "copy"], 500,
                                    "Failed to save video to temp file")]
                      /\ staging' = RemoveAll(st1, Deferred(r1))
                 ELSE IF outcome = "seek"
                 THEN /\ run' = [run EXCEPT ![p] =
                            Respond([r1 EXCEPT !.fault = "seek"], 500,
                                    "Failed to seek temp file")]
                      /\ staging' = RemoveAll(st1, Deferred(r1))
                 ELSE /\ run' = [run EXCEPT ![p] = [r1 EXCEPT !.pc = "remux"]]
                      /\ staging' = st1
    /\ UNCHANGED <<db, store, nreq, writer, geom, class, arg, ret, assets>>

\* os.CreateTemp, io.Copy and Seek.
Stage(p) ==
    /\ run[p].pc = "stage"
    /\ \E outcome \in {"create", "copy", "seek", "ok"}, n \in TempNames :
          LET r   == run[p]
              r1  == [r EXCEPT !.tempName = TempPath(n)]
              st1 == WriteFile(staging, TempPath(n), [kind |-> "upload", req |-> r.req])
          IN  /\ outcome # "create" => ~Exists(staging, TempPath(n))
              /\ IF outcome = "create"
                 THEN /\ run' = [run EXCEPT ![p] =
                            Respond([r EXCEPT !.fault = "create"], 500,
                                    "Failed to create temp file")]
                      /\ staging' = staging
                 ELSE IF outcome = "copy"
                 THEN /\ run' = [run EXCEPT ![p] =
                            Respond([r1 EXCEPT !.fault = "copy"], 500,
                                    "Failed to save video to temp file")]
                      /\ staging' = RemoveAll(st1, Deferred(r1))
                 ELSE IF outcome = "seek"
                 THEN /\ run' = [run EXCEPT ![p] =
                            Respond([r1 EXCEPT !.fault = "seek"], 500,
                                    "Failed to seek temp file")]
                      /\ staging' = RemoveAll(st1, Deferred(r1))
                 ELSE /\ run' = [run EXCEPT ![p] = [r1 EXCEPT !.pc = "remux"]]
                      /\ staging' = st1
    /\ UNCHANGED <<db, store, nreq, writer, geom, class, arg, ret, assets>>

\* processVideoForFastStart(tempFile.Name()) and the handling of its error.
Remux(p) ==
    /\ run[p].pc = "remux"
    /\ \E toolOK \in BOOLEAN, leftover \in BOOLEAN :
          LET r   == [run[p] EXCEPT !.tools = @ \cup {"ffmpeg"}]
              ff  == Ffmpeg(staging, r.tempName, toolOK, leftover)
              res == processVideoForFastStart(r.tempName, ff.ok)
              rf  == [r EXCEPT !.fault = IF ff.ok THEN @ ELSE "remux"]
          IN  IF res.err
              THEN /\ run' = [run EXCEPT ![p] =
                         Respond(rf, 500, "Failed to process video for fast start")]
                   /\ staging' = RemoveAll(ff.st, Deferred(rf))
              ELSE /\ run' = [run EXCEPT ![p] =
                         [rf EXCEPT !.pc = "open", !.processedPath = res.path]]
                   /\ staging' = ff.st
    /\ UNCHANGED <<db, store, nreq, writer, geom, class, arg, ret, assets>>

\* os.Open(processedPath)
OpenProcessed(p) ==
    /\ run[p].pc = "open"
    /\ \E ok \in BOOLEAN :
          LET r == run[p]
          IN  IF ok /\ Exists(staging, r.processedPath)
              THEN /\ run' = [run EXCEPT ![p] = [r EXCEPT !.pc = "rand"]]
                   /\ staging' = staging
              ELSE /\ run' = [run EXCEPT ![p] =
                         Respond([r EXCEPT !.fault = IF @ = "" THEN "open" ELSE @], 500,
                                 "Failed to open processed file for upload")]
                   /\ staging' = RemoveAll(staging, Deferred(r))
    /\ UNCHANGED <<db, store, nreq, writer, geom, class, arg, ret, assets>>

\* io.ReadFull(rand.Reader, rnd[:])
DrawRandom(p) ==
    /\ run[p].pc = "rand"
    /\ \E ok \in BOOLEAN, rnd \in RndDraws :
          LET r == run[p]
          IN  IF ok
              THEN /\ run' = [run EXCEPT ![p] = [r EXCEPT !.pc = "classify", !.rnd = rnd]]
                   /\ staging' = staging
              ELSE /\ run' = [run EXCEPT ![p] =
                         Respond([r EXCEPT !.fault = "rand"], 500,
                                 "Failed to generate random filename")]
                   /\ staging' = RemoveAll(staging, Deferred(r))
    /\ UNCHANGED <<db, store, nreq, writer, geom, class, arg, ret, assets>>

\* getVideoAspectRatio(tempFile.Name()), the prefix and the key.
Classify(p) ==
    /\ run[p].pc = "classify"
    /\ \E probe \in ProbeResults :
          LET r   == run[p]
              res == getVideoAspectRatio(probe)
          IN  run' = [run EXCEPT ![p] =
                  [r EXCEPT !.pc = "put",
                            !.tools = @ \cup {"ffprobe"},
                            !.aspect = res.aspect,
                            !.probeErr = res.err,
                            !.s3Key = S3Key(KeyPrefix(res.aspect, res.err), r.rnd)]]
    /\ UNCHANGED <<db, store, staging, nreq, writer, geom, class, arg, ret, assets>>

\* A failed PutObject is tried once more.
Publish_Retry(p) ==
    /\ run[p].pc = "put"
    /\ \E ok \in BOOLEAN :
          LET r == [run[p] EXCEPT !.puts = @ + 1]
          IN  IF ok
              THEN /\ store' = PutObject(store, s3Bucket, r.s3Key,
                                         UploadBody(staging, r), r.mediaType, r.req)
                   /\ run' = [run EXCEPT ![p] = [r EXCEPT !.pc = "record"]]
                   /\ staging' = staging
              ELSE IF r.puts < 2
              THEN /\ store' = store
                   /\ run' = [run EXCEPT ![p] = r]
                   /\ staging' = staging
              ELSE /\ store' = store
                   /\ run' = [run EXCEPT ![p] =
                         Respond([r EXCEPT !.fault = "put"], 500,
                                 "Failed to upload video to S3")]
                   /\ staging' = RemoveAll(staging, Deferred(r))
    /\ UNCHANGED <<db, nreq, writer, geom, class, arg, ret, assets>>

\* cfg.s3Client.PutObject
Publish(p) ==
    /\ run[p].pc = "put"
    /\ \E ok \in BOOLEAN :
          LET r == [run[p] EXCEPT !.puts = @ + 1]
          IN  IF ok
              THEN /\ store' = PutObject(store, s3Bucket, r.s3Key,
                                         UploadBody(staging, r), r.mediaType, r.req)
                   /\ run' = [run EXCEPT ![p] = [r EXCEPT !.pc = "record"]]
                   /\ staging' = staging
              ELSE /\ store' = store
                   /\ run' = [run EXCEPT ![p] =
                         Respond([r EXCEPT !.fault = "put"], 500,
                                 "Failed to upload video to S3")]
                   /\ staging' = RemoveAll(staging, Deferred(r))
    /\ UNCHANGED <<db, nreq, writer, geom, class, arg, ret, assets>>

\* A failed UpdateVideo is compensated by deleting the uploaded object.
Record_Compensate(p) ==
    /\ run[p].pc = "record"
    /\ \E ok \in BOOLEAN :
          LET r0 == run[p]
              r  == [r0 EXCEPT !.video.VideoURL =
                                   StrURL(CommaDelimited(s3Bucket, r0.s3Key))]
          IN  IF ok
              THEN /\ db' = UpdateVideo(db, r.video)
                   /\ writer' = r.req
                   /\ store' = store
                   /\ run' = [run EXCEPT ![p] =
                         [r EXCEPT !.pc = "sign", !.recorded = TRUE]]
                   /\ staging' = staging
              ELSE /\ db' = db
                   /\ writer' = writer
                   /\ store' = {o \in store :
                                  ~(o.bucket = s3Bucket /\ o.key = r.s3Key)}
                   /\ run' = [run EXCEPT ![p] =
                         Respond([r EXCEPT !.fault = "record"], 500,
                                 "Failed to update video URL")]
                   /\ staging' = RemoveAll(staging, Deferred(r))
    /\ UNCHANGED <<nreq, geom, class, arg, ret, assets>>

\* video.VideoURL = &commaDelimited; cfg.db.UpdateVideo(video)
Record(p) ==
    /\ run[p].pc = "record"
    /\ \E ok \in BOOLEAN :
          LET r0 == run[p]
              r  == [r0 EXCEPT !.video.VideoURL =
                                   StrURL(CommaDelimited(s3Bucket, r0.s3Key))]
          IN  IF ok
              THEN /\ db' = UpdateVideo(db, r.video)
                   /\ writer' = r.req
                   /\ run' = [run EXCEPT ![p] =
                         [r EXCEPT !.pc = "sign", !.recorded = TRUE]]
                   /\ staging' = staging
              ELSE /\ db' = db
                   /\ writer' = writer
                   /\ run' = [run EXCEPT ![p] =
                         Respond([r EXCEPT !.fault = "record"], 500,
                                 "Failed to update video URL")]
                   /\ staging' = RemoveAll(staging, Deferred(r))
    /\ UNCHANGED <<store, nreq, geom, class, arg, ret, assets>>

\* A signing failure takes the recorded reference back.
Sign_Rollback(p) ==
    /\ run[p].pc = "sign"
    /\ \E signOK \in BOOLEAN :
          LET r   == run[p]
              res == dbVideoToSignedVideo(r.video, signOK, Signature(r.req))
          IN  /\ run' = [run EXCEPT ![p] =
                    IF res.err
                    THEN Respond([r EXCEPT !.fault = IF signOK THEN @ ELSE "sign"], 500,
                                 "Failed to generate presigned URL")
                    ELSE [Respond(r, 200, "") EXCEPT !.respURL = res.video.VideoURL]]
              /\ db' = IF res.err
                       THEN UpdateVideo(db, [r.video EXCEPT !.VideoURL = NilURL])
                       ELSE db
              /\ staging' = RemoveAll(staging, Deferred(r))
    /\ UNCHANGED <<store, nreq, writer, geom, class, arg, ret, assets>>

\* cfg.dbVideoToSignedVideo(video) and the response.
Sign(p) ==
    /\ run[p].pc = "sign"
    /\ \E signOK \in BOOLEAN :
          LET r   == run[p]
              res == dbVideoToSignedVideo(r.video, signOK, Signature(r.req))
          IN  /\ run' = [run EXCEPT ![p] =
                    IF res.err
                    THEN Respond([r EXCEPT !.fault = IF signOK THEN @ ELSE "sign"], 500,
                                 "Failed to generate presigned URL")
                    ELSE [Respond(r, 200, "") EXCEPT !.respURL = res.video.VideoURL]]
              /\ staging' = RemoveAll(staging, Deferred(r))
    /\ UNCHANGED <<db, store, nreq, writer, geom, class, arg, ret, assets>>

\* A read of a resource: the record is fetched and materialized for the
\* caller; nothing is written back.
Read(p) ==
    /\ run[p].pc \in {"idle", "done"}
    /\ nreq < MaxRequests
    /\ \E vid \in DOMAIN db, signOK \in BOOLEAN :
          LET r0    == [InitRun EXCEPT !.req = nreq + 1, !.vid = vid, !.kind = "read"]
              video == GetVideo(db, vid)
              r     == [r0 EXCEPT !.video = video]
              res   == dbVideoToSignedVideo(video, signOK, Signature(r.req))
          IN  run' = [run EXCEPT ![p] =
                  IF res.err
                  THEN Respond([r EXCEPT !.fault = IF res.asked THEN "sign" ELSE @],
                               500, "Failed to generate presigned URL")
                  ELSE [Respond(r, 200, "") EXCEPT !.respURL = res.video.VideoURL]]
    /\ nreq' = nreq + 1
    /\ UNCHANGED <<db, store, staging, writer, geom, class, arg, ret, assets>>

Init ==
    /\ db = [v \in {"v1"} |-> [ID |-> v, UserID |-> "alice", VideoURL |-> NilURL]]
    /\ writer = 0
    /\ arg = NoCall
    /\ ret = NoCall
    /\ store = {}
    /\ assets = {}
    /\ staging = {}
    /\ run = [p \in Procs |-> InitRun]
    /\ nreq = 0
    /\ geom = Stream(0, 0)
    /\ class = ""

Next ==
    \/ \E p \in Procs : Begin(p)
    \/ \E p \in Procs : Intake(p)
    \/ \E p \in Procs : Stage(p)
    \/ \E p \in Procs : Remux(p)
    \/ \E p \in Procs : OpenProcessed(p)
    \/ \E p \in Procs : DrawRandom(p)
    \/ \E p \in Procs : Classify(p)
    \/ \E p \in Procs : Publish(p)
    \/ \E p \in Procs : Record(p)
    \/ \E p \in Procs : Sign(p)
    \/ \E p \in Procs : Read(p)

Spec == Init /\ [][Next]_vars

(***************************************************************************)
(* The classifier on its own: every geometry up to MaxDim is inspected.    *)
(***************************************************************************)
\* The geometries whose ratio lies exactly tol away from 16/9 or 9/16.
EdgeGeometries ==
    {Stream(809, 450), Stream(791, 450), Stream(233, 400), Stream(217, 400)}

ClassifyInit ==
    /\ db = [v \in {"v1"} |-> [ID |-> v, UserID |-> "alice", VideoURL |-> NilURL]]
    /\ writer = 0
    /\ arg = NoCall
    /\ ret = NoCall
    /\ store = {}
    /\ assets = {}
    /\ staging = {}
    /\ run = [p \in Procs |-> InitRun]
    /\ nreq = 0
    /\ geom \in {Stream(w, h) : w \in 1..MaxDim, h \in 1..MaxDim}
                \cup EdgeGeometries
    /\ class = ""

Inspect ==
    /\ class = ""
    /\ class' = getVideoAspectRatio(ProbeOK(<<geom>>)).aspect
    /\ UNCHANGED <<db, writer, store, staging, run, nreq, geom, arg, ret, assets>>

ClassifyNext == Inspect

ClassifySpec == ClassifyInit /\ [][ClassifyNext]_vars

(***************************************************************************)
(* dbVideoToSignedVideo on its own: every stored reference up to           *)
(* MaxRefLen atoms, with the signing call succeeding or failing.           *)
(***************************************************************************)
RefAtoms == {" ", ",", "b", "k"}

RECURSIVE SeqsUpTo(_, _)
SeqsUpTo(S, n) ==
    IF n = 0 THEN {<<>>}
    ELSE LET shorter == SeqsUpTo(S, n - 1)
         IN  shorter \cup {Append(s, a) : s \in shorter, a \in S}

StoredRefs == {NilURL} \cup {StrURL(s) : s \in SeqsUpTo(RefAtoms, MaxRefLen)}

\* The pipeline at rest.
PipelineIdle ==
    /\ db = [v \in {"v1"} |-> [ID |-> v, UserID |-> "alice", VideoURL |-> NilURL]]
    /\ writer = 0
    /\ store = {}
    /\ assets = {}
    /\ staging = {}
    /\ run = [p \in Procs |-> InitRun]
    /\ nreq = 0
    /\ geom = Stream(0, 0)
    /\ class = ""

PipelineUnchanged ==
    UNCHANGED <<db, writer, store, staging, run, nreq, geom, class, assets>>

MaterializeInit ==
    /\ PipelineIdle
    /\ arg \in {[video |-> [ID |-> "v1", UserID |-> "alice", VideoURL |-> u],
                 signOK |-> ok] : u \in StoredRefs, ok \in BOOLEAN}
    /\ ret = NoCall

Materialize ==
    /\ ~ret.called
    /\ ret' = [called |-> TRUE,
               out |-> dbVideoToSignedVideo(arg.video, arg.signOK, Signature(1))]
    /\ arg' = arg
    /\ PipelineUnchanged

MaterializeNext == Materialize

MaterializeSpec == MaterializeInit /\ [][MaterializeNext]_vars

(***************************************************************************)
(* The pipeline with its scheduling: a handler goroutine that has started  *)
(* keeps running, and every external call it makes returns, so the next    *)
(* step of a run in progress is eventually taken.  Clients are not obliged *)
(* to send requests: Begin and Read carry no fairness.                     *)
(***************************************************************************)
Step(p) ==
    \/ Intake(p)
    \/ Stage(p)
    \/ Remux(p)
    \/ OpenProcessed(p)
    \/ DrawRandom(p)
    \/ Classify(p)
    \/ Publish(p)
    \/ Record(p)
    \/ Sign(p)

LiveSpec == Init /\ [][Next]_vars /\ \A p \in Procs : WF_vars(Step(p))

(***************************************************************************)
(* The reference encoding on its own: a bucket name of up to MaxBucketLen  *)
(* atoms and a key from the key builder are written as the handler writes  *)
(* them and decoded as dbVideoToSignedVideo decodes them.                  *)
(***************************************************************************)
BucketAtoms == {" ", ",", "b"}

BucketNames == SeqsUpTo(BucketAtoms, MaxBucketLen)

Prefixes == {KeyPrefix(a, e) : a \in {"16:9", "9:16", "other"}, e \in BOOLEAN}

RoundTripInit ==
    /\ PipelineIdle
    /\ arg \in {[bucket |-> b, prefix |-> x, rnd |-> rnd] :
                  b \in BucketNames, x \in Prefixes, rnd \in RndDraws}
    /\ ret = NoCall

RoundTrip ==
    /\ ~ret.called
    /\ LET s3Key  == S3Key(arg.prefix, arg.rnd)
           stored == StrURL(CommaDelimited(arg.bucket, s3Key))
       IN  ret' = [called |-> TRUE, key |-> s3Key, stored |-> stored,
                   out |-> ParseRef(stored)]
    /\ arg' = arg
    /\ PipelineUnchanged

RoundTripNext == RoundTrip

RoundTripSpec == RoundTripInit /\ [][RoundTripNext]_vars

(***************************************************************************)
(* handlerUploadThumbnail, and the two handlers running against a row that *)
(* carries both the video reference and the thumbnail URL.                 *)
(***************************************************************************)
Base64Digits ==
    <<"A", "B", "C", "D", "E", "F", "G", "H", "I", "J", "K", "L", "M",
      "N", "O", "P", "Q", "R", "S", "T", "U", "V", "W", "X", "Y", "Z",
      "a", "b", "c", "d", "e", "f", "g", "h", "i", "j", "k", "l", "m",
      "n", "o", "p", "q", "r", "s", "t", "u", "v", "w", "x", "y", "z",
      "0", "1", "2", "3", "4", "5", "6", "7", "8", "9", "-", "_">>

\* base64.RawURLEncoding.EncodeToString: six bits per digit, no padding.
RECURSIVE RawURLEncode(_)
RawURLEncode(bs) ==
    IF bs = <<>> THEN <<>>
    ELSE IF Len(bs) = 1
    THEN <<Base64Digits[(bs[1] \div 4) + 1],
           Base64Digits[((bs[1] % 4) * 16) + 1]>>
    ELSE IF Len(bs) = 2
    THEN <<Base64Digits[(bs[1] \div 4) + 1],
           Base64Digits[((bs[1] % 4) * 16 + bs[2] \div 16) + 1],
           Base64Digits[((bs[2] % 16) * 4) + 1]>>
    ELSE <<Base64Digits[(bs[1] \div 4) + 1],
           Base64Digits[((bs[1] % 4) * 16 + bs[2] \div 16) + 1],
           Base64Digits[((bs[2] % 16) * 4 + bs[3] \div 64) + 1],
           Base64Digits[(bs[3] % 64) + 1]>>
         \o RawURLEncode(SubSeq(bs, 4, Len(bs)))

\* The extension chosen for the media type.
ThumbExt(mediaType) ==
    IF mediaType = <<"image/jpeg">> THEN ".jpg"
    ELSE IF mediaType = <<"image/png">> THEN ".png"
    ELSE ".img"

port == "8091"

\* filename := randomName + ext
ThumbFilename(rnd, mediaType) == RawURLEncode(rnd) \o <<ThumbExt(mediaType)>>

\* fmt.Sprintf("http://localhost:%s/assets/%s", cfg.port, filename)
PublicURL(filename) == <<"http://localhost:", port, "/assets/">> \o filename

\* os.Create: the file of that name is created empty, or truncated when it
\* exists.  The content of a file is the sequence of its chunks, each the
\* number of the request whose data it holds (0 where nothing was written).
CreateAsset(as, filename) ==
    {f \in as : f.name # filename} \cup {[name |-> filename, content |-> <<>>]}

\* A write of one chunk of request req at chunk offset k (from 0) through a
\* descriptor of its own: the chunk replaces what is there, and a file that
\* is shorter than the offset is extended with a hole.
ChunkWritten(c, k, req) ==
    [i \in 1..(IF Len(c) > k + 1 THEN Len(c) ELSE k + 1) |->
        IF i = k + 1 THEN req ELSE IF i <= Len(c) THEN c[i] ELSE 0]

WriteChunk(as, filename, k, req) ==
    {IF f.name = filename
     THEN [f EXCEPT !.content = ChunkWritten(f.content, k, req)]
     ELSE f : f \in as}

\* Path parsing and authentication.
ThumbBegin(p) ==
    /\ run[p].pc \in {"idle", "done"}
    /\ nreq < MaxRequests
    /\ \E idOK \in BOOLEAN, tok \in {"none", "bad", "good"},
          caller \in Users, vid \in VideoIDs :
          LET r0 == [InitRun EXCEPT !.req = nreq + 1, !.kind = "thumb"]
              r1 == [r0 EXCEPT !.vid = vid]
              r2 == [r1 EXCEPT !.caller = caller, !.authed = TRUE]
          IN  run' = [run EXCEPT ![p] =
                  IF ~idOK THEN Respond(r0, 400, "Invalid ID")
                  ELSE IF tok = "none" THEN Respond(r1, 401, "Couldn't find JWT")
                  ELSE IF tok = "bad" THEN Respond(r1, 401, "Couldn't validate JWT")
                  ELSE [r2 EXCEPT !.pc = "tintake"]]
    /\ nreq' = nreq + 1
    /\ UNCHANGED <<db, writer, store, staging, geom, class, arg, ret, assets>>

\* ParseMultipartForm, FormFile and the content type check.
ThumbIntake(p) ==
    /\ run[p].pc = "tintake"
    /\ \E form \in {"malformed", "nofield", "ok"}, ct \in ContentTypes :
          LET r  == run[p]
              mt == ParseMediaType(ct)
          IN  run' = [run EXCEPT ![p] =
                  IF form = "malformed"
                  THEN Respond(r, 400, "Error parsing form data")
                  ELSE IF form = "nofield"
                       THEN Respond(r, 400, "Missing or invalid 'thumbnail' file")
                  ELSE IF mt.err \/ mt.mediatype = <<>>
                       THEN Respond(r, 400, "Invalid Content-Type header")
                  ELSE IF mt.mediatype \notin {<<"image/jpeg">>, <<"image/png">>}
                       THEN Respond(r, 400,
                              "Unsupported media type; only image/jpeg and image/png are allowed")
                  ELSE [r EXCEPT !.pc = "tlookup", !.mediaType = mt.mediatype]]
    /\ UNCHANGED <<db, writer, store, staging, nreq, geom, class, arg, ret, assets>>

\* GetVideo and the ownership check.
ThumbLookup(p) ==
    /\ run[p].pc = "tlookup"
    /\ \E dbOK \in BOOLEAN :
          LET r     == run[p]
              video == GetVideo(db, r.vid)
          IN  run' = [run EXCEPT ![p] =
                  IF ~dbOK
                  THEN Respond([r EXCEPT !.fault = "lookup"], 500,
                               "Error retrieving video")
                  ELSE IF video.ID = NilID THEN Respond(r, 404, "Video not found")
                  ELSE IF NotOwner(video, r.caller)
                       THEN Respond(r, 401, "You do not own this video")
                  ELSE [r EXCEPT !.pc = "tsave", !.video = video]]
    /\ UNCHANGED <<db, writer, store, staging, nreq, geom, class, arg, ret, assets>>

\* rand.Read(rnd[:])
ThumbRand(p) ==
    /\ run[p].pc = "tsave"
    /\ \E ok \in BOOLEAN, rnd \in RndDraws :
          LET r == run[p]
          IN  run' = [run EXCEPT ![p] =
                  IF ok THEN [r EXCEPT !.pc = "tcreate", !.rnd = rnd]
                  ELSE Respond([r EXCEPT !.fault = "rand"], 500,
                               "Failed to generate random filename")]
    /\ UNCHANGED <<db, writer, store, staging, nreq, geom, class, arg, ret, assets>>

\* os.Create(fullPath).  The length of the uploaded file, in chunks, is
\* fixed here: nothing looks at it earlier.
ThumbCreate(p) ==
    /\ run[p].pc = "tcreate"
    /\ \E ok \in BOOLEAN, size \in 0..MaxChunks :
          LET r        == run[p]
              filename == ThumbFilename(r.rnd, r.mediaType)
          IN  IF ok
              THEN /\ run' = [run EXCEPT ![p] =
                         [r EXCEPT !.pc = "tcopy", !.size = size, !.written = 0]]
                   /\ assets' = CreateAsset(assets, filename)
              ELSE /\ run' = [run EXCEPT ![p] =
                         Respond([r EXCEPT !.fault = "create"], 500,
                                 "Failed to create thumbnail file")]
                   /\ assets' = assets
    /\ UNCHANGED <<db, writer, store, staging, nreq, geom, class, arg, ret>>

\* io.Copy(out, file), one chunk at a time; after the last chunk
\* video.ThumbnailURL = &publicURL.
ThumbWrite(p) ==
    /\ run[p].pc = "tcopy"
    /\ \E ok \in BOOLEAN :
          LET r        == run[p]
              filename == ThumbFilename(r.rnd, r.mediaType)
          IN  IF ~ok
              THEN /\ run' = [run EXCEPT ![p] =
                         Respond([r EXCEPT !.fault = "copy"], 500,
                                 "Failed to write thumbnail to disk")]
                   /\ assets' = assets
              ELSE IF r.written < r.size
              THEN /\ run' = [run EXCEPT ![p] = [r EXCEPT !.written = @ + 1]]
                   /\ assets' = WriteChunk(assets, filename, r.written, r.req)
              ELSE /\ run' = [run EXCEPT ![p] =
                         [r EXCEPT !.pc = "trecord",
                                   !.video.ThumbnailURL = StrURL(PublicURL(filename))]]
                   /\ assets' = assets
    /\ UNCHANGED <<db, writer, store, staging, nreq, geom, class, arg, ret>>

\* cfg.db.UpdateVideo(video) and the response.
ThumbRecord(p) ==
    /\ run[p].pc = "trecord"
    /\ \E ok \in BOOLEAN :
          LET r == run[p]
          IN  IF ok
              THEN /\ db' = UpdateVideo(db, r.video)
                   /\ run' = [run EXCEPT ![p] =
                         [Respond(r, 200, "") EXCEPT !.recorded = TRUE]]
              ELSE /\ db' = db
                   /\ run' = [run EXCEPT ![p] =
                         Respond([r EXCEPT !.fault = "record"], 500,
                                 "Failed to update video thumbnail URL")]
    /\ UNCHANGED <<writer, store, staging, nreq, geom, class, arg, ret, assets>>

\* The row with both of its URL fields.
FieldsInit ==
    /\ db = [v \in {"v1"} |-> [ID |-> v, UserID |-> "alice",
                               VideoURL |-> NilURL, ThumbnailURL |-> NilURL]]
    /\ writer = 0
    /\ arg = NoCall
    /\ ret = NoCall
    /\ store = {}
    /\ assets = {}
    /\ staging = {}
    /\ run = [p \in Procs |-> InitRun]
    /\ nreq = 0
    /\ geom = Stream(0, 0)
    /\ class = ""

FieldsNext ==
    \/ Next
    \/ \E p \in Procs : ThumbBegin(p)
    \/ \E p \in Procs : ThumbIntake(p)
    \/ \E p \in Procs : ThumbLookup(p)
    \/ \E p \in Procs : ThumbRand(p)
    \/ \E p \in Procs : ThumbCreate(p)
    \/ \E p \in Procs : ThumbWrite(p)
    \/ \E p \in Procs : ThumbRecord(p)

FieldsSpec == FieldsInit /\ [][FieldsNext]_vars

(***************************************************************************)
(* Vocabulary of the properties.                                           *)
(***************************************************************************)
Done(p) == run[p].pc = "done"
UploadDone(p) == run[p].pc = "done" /\ run[p].kind = "upload"

\* The run has touched nothing outside itself.
NoEffect(r) ==
    r.tempName = <<>> /\ r.tools = {} /\ r.puts = 0 /\ ~r.recorded

\* A URL that addresses the object (bucket, key), whatever its signature.
UrlAddresses(url, bucket, key) ==
    /\ ~url.nil
    /\ Len(url.s) >= 1
    /\ SubSeq(url.s, 1, Len(url.s) - 1)
         = <<"https://">> \o bucket \o <<S3Host, "/">> \o key \o <<Expires>>

IsHexDigit(d) == \E i \in 1..16 : HexDigits[i] = d
HexVal(d) == (CHOOSE i \in 1..16 : HexDigits[i] = d) - 1

\* key is cls "/" hex(rnd) ".mp4"
KeyForm(key, cls, rnd) ==
    /\ Len(key) = 2 * Len(rnd) + 3
    /\ key[1] = cls
    /\ key[2] = "/"
    /\ key[Len(key)] = ".mp4"
    /\ \A i \in 1..Len(rnd) :
          /\ IsHexDigit(key[2 * i + 1]) /\ IsHexDigit(key[2 * i + 2])
          /\ 16 * HexVal(key[2 * i + 1]) + HexVal(key[2 * i + 2]) = rnd[i]

\* |w/h - n/d| <= (tolNum/tolDen) * (n/d): a tolerance relative to the ratio.
RelWithin(w, h, n, d) == tolDen * Abs(d * w - n * h) <= tolNum * n * h

ClaimedClass(w, h) ==
    IF RelWithin(w, h, 16, 9) THEN "16:9"
    ELSE IF RelWithin(w, h, 9, 16) THEN "9:16"
    ELSE "other"

(***************************************************************************)
(* Properties.                                                             *)
(***************************************************************************)

\* C1: after every run of the upload pipeline, whatever its exit path, no
\* file of that run (staged original, processed artifact, or the output a
\* failed remux left behind) remains in the staging area.
C1_StagingClean ==
    \A p \in Procs :
        UploadDone(p) => \A f \in staging : f.content.req # run[p].req

\* C2 as stated: every upload request of an authenticated caller who is not
\* the owner of the target resource is answered 401 and has no effect.
C2_NonOwnerAlways401 ==
    \A p \in Procs :
        ( /\ UploadDone(p) /\ run[p].authed
          /\ run[p].vid \in DOMAIN db
          /\ db[run[p].vid].UserID # run[p].caller )
        => run[p].status = 401 /\ NoEffect(run[p])

\* C2 amended: an upload request of an authenticated caller who is not the
\* owner of the target resource is answered 401 when the lookup of the
\* resource succeeds and 500 when the lookup fails; in both cases the run
\* has no effect: no staged file, no tool invoked, no object put, and no
\* write of the stored reference.
C2_NonOwnerNoEffect ==
    \A p \in Procs :
        ( /\ UploadDone(p) /\ run[p].authed
          /\ run[p].vid \in DOMAIN db
          /\ db[run[p].vid].UserID # run[p].caller )
        => /\ run[p].status = IF run[p].fault = "lookup" THEN 500 ELSE 401
           /\ run[p].fault \in {"", "lookup"}
           /\ NoEffect(run[p])

C2_Witness ==
    \E p \in Procs :
        /\ UploadDone(p) /\ run[p].authed
        /\ run[p].vid = "v1" /\ run[p].caller = "bob"
        /\ run[p].status = 401
        /\ ~db["v1"].VideoURL.nil

\* C3: in every run in which the remux step fails the pipeline aborts before
\* any remote upload: no PutObject is issued, the run does not write the
\* stored reference, and the caller receives the 500 processing failure.
C3_RemuxFailureAborts ==
    \A p \in Procs :
        run[p].fault = "remux"
        => /\ Done(p)
           /\ run[p].status = 500
           /\ run[p].msg = "Failed to process video for fast start"
           /\ run[p].puts = 0
           /\ ~run[p].recorded
           /\ \A o \in store : o.putBy # run[p].req

C3_Witness ==
    \E p \in Procs :
        /\ run[p].fault = "remux" /\ Done(p)
        /\ "ffmpeg" \in run[p].tools

\* C4: the body of every published object is the processed artifact that a
\* successful remux of the publishing run's own staged original produced,
\* never the staged original.
C4_ProcessedBodyPublished ==
    /\ \A o \in store :
          /\ o.body.kind = "faststart"
          /\ o.body.req = o.putBy
    /\ \A p \in Procs :
          (run[p].puts > 0) => run[p].fault \notin {"remux", "open"}

C4_Witness ==
    \E p \in Procs, o \in store :
        /\ run[p].puts = 1 /\ o.putBy = run[p].req
        /\ o.key = run[p].s3Key

\* C5 as stated: after a successful run exactly one object was put by the
\* run, it is in the store at the derived key, and the persisted stored
\* reference decodes to exactly that bucket and key.
C5_ReferenceIsRunsObject ==
    \A p \in Procs :
        (UploadDone(p) /\ run[p].status = 200)
        => /\ run[p].puts = 1
           /\ HasObject(store, s3Bucket, run[p].s3Key)
           /\ ParseRef(db[run[p].vid].VideoURL)
                = [ok |-> TRUE, bucket |-> s3Bucket, key |-> run[p].s3Key]

C5_AfterSuccess ==
    \A p \in Procs :
        (UploadDone(p) /\ run[p].status = 200)
        => /\ run[p].puts = 1
           /\ run[p].recorded
           /\ HasObject(store, s3Bucket, run[p].s3Key)
           /\ UrlAddresses(run[p].respURL, s3Bucket, run[p].s3Key)

C5_AtRecord ==
    \A p \in Procs :
        (run[p].pc = "record" /\ run'[p].pc = "sign")
        => ParseRef(db'[run[p].vid].VideoURL)
             = [ok |-> TRUE, bucket |-> s3Bucket, key |-> run[p].s3Key]

\* C5 amended: after a successful run exactly one object was put by the run,
\* it is in the store at the derived key in the configured bucket, the
\* returned signed URL addresses that bucket and key, and the stored
\* reference as the run's persistence step wrote it decodes to exactly that
\* bucket and key (another request may overwrite it afterwards).
C5_SuccessfulRun == [](C5_AfterSuccess) /\ [][C5_AtRecord]_vars

C5_Witness ==
    \E p \in Procs :
        /\ UploadDone(p) /\ run[p].status = 200
        /\ ParseRef(db[run[p].vid].VideoURL).key = run[p].s3Key

\* C6: in every reachable state each resource's persisted stored reference
\* is absent or decodes to a non-empty location and a non-empty key of an
\* object present in the store.
C6_ReferenceWellFormed ==
    \A v \in DOMAIN db :
        \/ db[v].VideoURL.nil
        \/ LET ref == ParseRef(db[v].VideoURL)
           IN  /\ ref.ok
               /\ ref.bucket # <<>>
               /\ ref.key # <<>>
               /\ HasObject(store, ref.bucket, ref.key)

C6_Witness ==
    /\ ~db["v1"].VideoURL.nil
    /\ \E p \in Procs : UploadDone(p) /\ run[p].status = 500 /\ run[p].puts = 1

\* C7: materialization never replaces the persisted stored reference by the
\* signed URL: the persisted value stays a bucket/key reference, the signed
\* URL is in the returned resource only, and two materializations of the
\* same stored reference address the same bucket and key.
C7_ReferenceNeverSigned ==
    /\ \A v \in DOMAIN db :
          \/ db[v].VideoURL.nil
          \/ /\ db[v].VideoURL.s[1] # "https://"
             /\ ParseRef(db[v].VideoURL).ok
             /\ ParseRef(db[v].VideoURL).bucket = s3Bucket
    /\ \A p \in Procs :
          (Done(p) /\ run[p].status = 200)
          => LET ref == ParseRef(run[p].video.VideoURL)
             IN  ref.ok /\ UrlAddresses(run[p].respURL, ref.bucket, ref.key)
    /\ \A p, q \in Procs :
          ( /\ Done(p) /\ run[p].status = 200
            /\ Done(q) /\ run[q].status = 200
            /\ run[p].video.VideoURL = run[q].video.VideoURL )
          => SubSeq(run[p].respURL.s, 1, Len(run[p].respURL.s) - 1)
               = SubSeq(run[q].respURL.s, 1, Len(run[q].respURL.s) - 1)

C7_Witness ==
    \E p, q \in Procs :
        /\ p # q
        /\ Done(p) /\ run[p].status = 200
        /\ Done(q) /\ run[q].status = 200 /\ run[q].kind = "read"
        /\ run[p].video.VideoURL = run[q].video.VideoURL
        /\ run[p].respURL # run[q].respURL
        /\ db[run[q].vid].VideoURL = run[q].video.VideoURL

\* C8 as stated: the key is {classification}/{hex}.mp4 with prefix wide for
\* a 16:9 video, tall for a 9:16 video and other for every other video.
C8_WideTallPrefix ==
    \A p \in Procs :
        run[p].s3Key # <<>>
        => KeyForm(run[p].s3Key,
                   IF run[p].aspect = "16:9" THEN "wide"
                   ELSE IF run[p].aspect = "9:16" THEN "tall"
                   ELSE "other",
                   run[p].rnd)

\* C8 amended: the key is {prefix}/{hex}.mp4 where the prefix is landscape
\* for a video classified as 16:9, portrait for one classified as 9:16 and
\* other for every other video, and the run publishes under that key.
C8_KeyPrefix ==
    /\ \A p \in Procs :
          run[p].s3Key # <<>>
          => KeyForm(run[p].s3Key,
                     IF run[p].aspect = "16:9" THEN "landscape"
                     ELSE IF run[p].aspect = "9:16" THEN "portrait"
                     ELSE "other",
                     run[p].rnd)
    /\ \A p \in Procs :
          run[p].pc \in {"record", "sign"}
          => HasObject(store, s3Bucket, run[p].s3Key)
    /\ \A o \in store : o.key[1] \in {"landscape", "portrait", "other"}

C8_Witness ==
    \E p \in Procs :
        /\ run[p].aspect = "16:9"
        /\ run[p].s3Key[1] = "landscape"
        /\ HasObject(store, s3Bucket, run[p].s3Key)

\* C9: for all positive width/height pairs the classifier returns 16:9
\* exactly when the ratio is within 2% of 16/9 (inclusive), otherwise 9:16
\* exactly when it is within 2% of 9/16 (inclusive), and other otherwise.
C9_TwoPercentOfRatio ==
    class # "" => class = ClaimedClass(geom.Width, geom.Height)

\* C10: a failure of the classification step never aborts the pipeline: the
\* run continues with the prefix other and, if all later stages succeed,
\* publishes under other/ and returns 200.
C10_ClassifyFailureNonFatal ==
    \A p \in Procs :
        run[p].probeErr
        => /\ run[p].pc \in {"put", "record", "sign", "done"}
           /\ run[p].s3Key[1] = "other"
           /\ Done(p) =>
                /\ run[p].fault \in {"", "put", "record", "sign"}
                /\ run[p].fault = ""
                   => /\ run[p].status = 200
                      /\ HasObject(store, s3Bucket, run[p].s3Key)
                      /\ UrlAddresses(run[p].respURL, s3Bucket, run[p].s3Key)
                /\ run[p].fault # "" => run[p].status = 500

C10_Witness ==
    \E p \in Procs :
        /\ run[p].probeErr /\ Done(p) /\ run[p].status = 200
        /\ run[p].s3Key[1] = "other"

\* s is made of blanks only.
AllBlank(s) == \A i \in 1..Len(s) : s[i] = " "

\* b is s without its leading and trailing blanks.
IsTrimOf(b, s) ==
    \E i \in 1..(Len(s) + 1), j \in 0..Len(s) :
        /\ b = SubSeq(s, i, j)
        /\ AllBlank(SubSeq(s, 1, i - 1))
        /\ AllBlank(SubSeq(s, j + 1, Len(s)))
        /\ b # <<>> => b[1] # " " /\ b[Len(b)] # " "

\* The stored reference reads as location "," key around its first comma.
ReadsAs(url, loc, key) ==
    /\ ~url.nil
    /\ \E c \in 1..Len(url.s) :
          /\ url.s[c] = ","
          /\ \A i \in 1..(c - 1) : url.s[i] # ","
          /\ IsTrimOf(loc, SubSeq(url.s, 1, c - 1))
          /\ IsTrimOf(key, SubSeq(url.s, c + 1, Len(url.s)))

\* Absent, blank, without separator, or with an empty location or key.
Malformed(url) ==
    \/ url.nil
    \/ AllBlank(url.s)
    \/ \A i \in 1..Len(url.s) : url.s[i] # ","
    \/ \E loc \in SeqsUpTo(RefAtoms, MaxRefLen) :
          ReadsAs(url, loc, <<>>) \/ ReadsAs(url, <<>>, loc)

\* C11: dbVideoToSignedVideo returns an error, asks for no signed URL and
\* returns the video unchanged when the stored reference is absent, blank,
\* without separator, or has an empty location or key; it returns an error
\* and the video unchanged when signing fails; in every other case it
\* returns the video with the reference replaced by a URL signed for exactly
\* the decoded bucket and key.
C11_SignedOrUnchanged ==
    ret.called =>
        LET in  == arg.video
            out == ret.out
        IN  /\ Malformed(in.VideoURL)
               => out.err /\ ~out.asked /\ out.video = in
            /\ ~Malformed(in.VideoURL) /\ ~arg.signOK
               => out.err /\ out.video = in
            /\ ~Malformed(in.VideoURL) /\ arg.signOK
               => /\ ~out.err /\ out.asked
                  /\ out.video.ID = in.ID /\ out.video.UserID = in.UserID
                  /\ \E loc, key \in SeqsUpTo(RefAtoms, MaxRefLen) :
                        /\ ReadsAs(in.VideoURL, loc, key)
                        /\ UrlAddresses(out.video.VideoURL, loc, key)

\* A padded reference " b,k" was signed for bucket b and key k.
C11_Witness ==
    /\ ret.called
    /\ arg.video.VideoURL = StrURL(<<" ", "b", ",", "k">>)
    /\ ~ret.out.err
    /\ UrlAddresses(ret.out.video.VideoURL, <<"b">>, <<"k">>)

IntakeDefects == {"toolarge", "malformed", "nofield", "ctype"}

\* C12: every intake failure of an owner's upload (body over the ceiling,
\* malformed form, missing video field, unparsable content type or a type
\* other than video/mp4) is answered 400 before anything is staged: the run
\* creates no temporary file, invokes no tool, publishes no object and
\* leaves the stored reference alone.
C12_IntakeFailureNoEffect ==
    \A p \in Procs :
        run[p].defect \in IntakeDefects
        => /\ Done(p) /\ run[p].status = 400
           /\ NoEffect(run[p])
           /\ \A f \in staging : f.content.req # run[p].req
           /\ \A o \in store : o.putBy # run[p].req
           /\ writer # run[p].req

\* One run was refused for its size and another for its content type.
C12_Witness ==
    \E p, q \in Procs :
        /\ run[p].defect = "toolarge" /\ Done(p) /\ run[p].status = 400
        /\ run[q].defect = "ctype" /\ Done(q) /\ run[q].status = 400
        /\ run[q].msg = "Invalid Content-Type header"

\* The status the error taxonomy gives to an outcome: input validation 400,
\* credential and ownership 401, absent resource 404, any failure of a
\* collaborator 500, and 200 otherwise.
TaxonomyStatus(defect, fault) ==
    IF defect \in {"id"} \cup IntakeDefects THEN 400
    ELSE IF defect \in {"token", "owner"} THEN 401
    ELSE IF defect = "absent" THEN 404
    ELSE IF fault # "" THEN 500
    ELSE 200

\* The run went through every stage: both tools ran, the object was put,
\* the reference recorded and the signed URL returned.
CompletedEveryStage(r) ==
    /\ r.defect = "" /\ r.fault = ""
    /\ r.tempName # <<>> /\ r.processedPath # <<>>
    /\ r.tools = {"ffmpeg", "ffprobe"}
    /\ r.puts = 1 /\ r.recorded
    /\ ~r.respURL.nil

\* C13: every terminal outcome of the upload handler has the status of the
\* taxonomy: malformed ID, malformed form, missing file or disallowed type
\* 400; missing or invalid credential or non-owner 401; absent resource 404;
\* staging, remux, upload, persistence or signing failure 500; and only a
\* run that completed every stage 200.
C13_StatusTaxonomy ==
    \A p \in Procs :
        /\ run[p].kind = "upload" /\ run[p].defect # "" => Done(p)
        /\ UploadDone(p)
           => /\ run[p].status = TaxonomyStatus(run[p].defect, run[p].fault)
              /\ run[p].fault \in {"create", "copy", "seek", "remux", "put",
                                   "record", "sign"}
                 => run[p].status = 500
              /\ run[p].status = 200 => CompletedEveryStage(run[p])

\* A non-owner was answered 401 and a complete run 200.
C13_Witness ==
    \E p, q \in Procs :
        /\ UploadDone(p) /\ run[p].defect = "owner" /\ run[p].status = 401
        /\ UploadDone(q) /\ run[q].status = 200 /\ CompletedEveryStage(run[q])

\* C14 as stated: when persisting the reference fails after a successful
\* upload, the persisted reference has the value it had before the run
\* (the value the run read when it fetched the resource).
C14_ReferenceAsBeforeRun ==
    [][\A p \in Procs :
          run[p].pc = "record" /\ run'[p].fault = "record"
          => db'[run[p].vid].VideoURL = run[p].video.VideoURL]_vars

C14_Orphaned ==
    \A p \in Procs :
        run[p].fault = "record"
        => /\ Done(p) /\ run[p].status = 500
           /\ run[p].puts = 1 /\ ~run[p].recorded
           /\ HasObject(store, s3Bucket, run[p].s3Key)
           /\ writer # run[p].req

C14_AtRecord ==
    \A p \in Procs :
        run[p].pc = "record" /\ run'[p].fault = "record"
        => db' = db /\ store' = store

\* C14: when persisting the reference fails after the object was uploaded,
\* the run returns 500, the object stays in the store (no compensating
\* delete), and the failed step leaves the persisted reference as it was:
\* the run never becomes the writer of the reference.
C14_PersistFailureOrphans == [](C14_Orphaned) /\ [][C14_AtRecord]_vars

\* The object is in the store and the resource still has no reference.
C14_Witness ==
    \E p \in Procs :
        /\ run[p].fault = "record" /\ Done(p) /\ run[p].status = 500
        /\ HasObject(store, s3Bucket, run[p].s3Key)
        /\ db[run[p].vid].VideoURL.nil

\* The reference (bucket, key) as the materializer decodes it.
RefOf(bucket, key) == [ok |-> TRUE, bucket |-> bucket, key |-> key]

\* C15: for two successful uploads by the owner to the same resource, under
\* every interleaving, both objects are in the store and the persisted
\* reference is exactly the (bucket, key) of the run whose persistence step
\* executed last, never a mixture of the two runs' values.
C15_LastWriteWins ==
    \A p, q \in Procs :
        ( /\ p # q /\ UploadDone(p) /\ UploadDone(q)
          /\ run[p].status = 200 /\ run[q].status = 200
          /\ run[p].vid = run[q].vid )
        => /\ HasObject(store, s3Bucket, run[p].s3Key)
           /\ HasObject(store, s3Bucket, run[q].s3Key)
           /\ writer \in {run[p].req, run[q].req}
           /\ \A x \in {p, q} :
                 writer = run[x].req
                 => ParseRef(db[run[x].vid].VideoURL)
                      = RefOf(s3Bucket, run[x].s3Key)

\* Two overlapping runs with different keys both answered 200, and the run
\* that started first persisted last.
C15_Witness ==
    \E p, q \in Procs :
        /\ UploadDone(p) /\ UploadDone(q)
        /\ run[p].status = 200 /\ run[q].status = 200
        /\ run[p].vid = run[q].vid
        /\ run[p].s3Key # run[q].s3Key
        /\ run[p].req < run[q].req
        /\ writer = run[p].req
        /\ ParseRef(db[run[p].vid].VideoURL) = RefOf(s3Bucket, run[p].s3Key)

\* The position of a stage in the order validate (idle, intake), stage,
\* remux (remux, open), classify (rand, classify), publish, record, sign.
StageRank(pc) ==
    CASE pc = "idle"     -> 0
      [] pc = "intake"   -> 1
      [] pc = "stage"    -> 2
      [] pc = "remux"    -> 3
      [] pc = "open"     -> 4
      [] pc = "rand"     -> 5
      [] pc = "classify" -> 6
      [] pc = "put"      -> 7
      [] pc = "record"   -> 8
      [] pc = "sign"     -> 9
      [] pc = "done"     -> 10

RemuxedAndClassified(r) ==
    /\ r.tools = {"ffmpeg", "ffprobe"}
    /\ r.processedPath # <<>>
    /\ r.s3Key # <<>>

\* What a run has done so far respects the order of the stages.
C16_EffectsInOrder ==
    \A p \in Procs :
        /\ run[p].puts <= 1
        /\ run[p].puts = 1 => RemuxedAndClassified(run[p])
        /\ run[p].recorded
           => run[p].puts = 1 /\ HasObject(store, s3Bucket, run[p].s3Key)
        /\ writer = run[p].req /\ run[p].req # 0 => run[p].recorded
        /\ ( \/ run[p].pc = "sign"
             \/ run[p].fault = "sign"
             \/ ~run[p].respURL.nil ) /\ run[p].kind = "upload"
           => run[p].recorded
        /\ "ffprobe" \in run[p].tools
           => "ffmpeg" \in run[p].tools /\ run[p].processedPath # <<>>
        /\ run[p].processedPath # <<>> \/ run[p].tools # {}
           => run[p].tempName # <<>>

\* Every step of a run either moves it to the next position or ends it;
\* a finished or fresh process starts a new request.
C16_StepsInOrder ==
    \A p \in Procs :
        run'[p] # run[p]
        => \/ /\ run[p].pc \in {"idle", "done"}
              /\ run'[p].req = nreq + 1
              /\ run'[p].pc \in {"intake", "done"}
           \/ /\ run[p].pc \notin {"idle", "done"}
              /\ run'[p].req = run[p].req
              /\ \/ run'[p].pc = "done"
                 \/ StageRank(run'[p].pc) = StageRank(run[p].pc) + 1
              /\ run[p].pc = "put" => RemuxedAndClassified(run[p])
              /\ run[p].pc = "record"
                 => HasObject(store, s3Bucket, run[p].s3Key)
              /\ run[p].pc = "sign" => run[p].recorded

\* C16: within one run the stages occur in the order validate, stage,
\* remux, classify, publish, record, sign, each at most once and without
\* retry: no publication before remux and classification are complete, no
\* recorded reference before the publication succeeded, no signing before
\* the reference is recorded.
C16_StrictStageOrder == [](C16_EffectsInOrder) /\ [][C16_StepsInOrder]_vars

\* A run that went through all the stages and signed.
C16_Witness ==
    \E p \in Procs :
        /\ UploadDone(p) /\ run[p].status = 200
        /\ RemuxedAndClassified(run[p])
        /\ run[p].puts = 1 /\ run[p].recorded /\ ~run[p].respURL.nil

\* Request k is running on p and has not been answered.
InProgress(p, k) == run[p].req = k /\ run[p].pc \notin {"idle", "done"}

\* Request k on p has been answered.
Answered(p, k) == run[p].req = k /\ run[p].pc = "done" /\ run[p].status # 0

\* No staged file of request k is left.
Released(k) == \A f \in staging : f.content.req # k

\* C17: every pipeline run eventually reaches a terminal state in which its
\* response has been sent and its staged artifacts have been released,
\* provided every external call returns.
C17_TerminatesReleased ==
    \A p \in Procs : \A k \in 1..MaxRequests :
        InProgress(p, k) ~> (Answered(p, k) /\ Released(k))

\* Every run is eventually answered.
C17_Terminates ==
    \A p \in Procs : \A k \in 1..MaxRequests :
        InProgress(p, k) ~> Answered(p, k)

\* Non-empty, without comma, without leading or trailing blank.
PlainBucket(b) ==
    /\ b # <<>>
    /\ \A i \in 1..Len(b) : b[i] # ","
    /\ b[1] # " " /\ b[Len(b)] # " "

\* C18: for every non-empty bucket name without comma and without leading
\* or trailing whitespace, and every key of the key builder, decoding the
\* persisted "<location>,<key>" in dbVideoToSignedVideo yields exactly the
\* bucket and the key the upload handler encoded.
C18_RoundTrip ==
    ret.called /\ PlainBucket(arg.bucket)
    => ret.out = RefOf(arg.bucket, ret.key)

\* A bucket name with a blank inside came back as written.
C18_Witness ==
    /\ ret.called
    /\ arg.bucket = <<"b", " ", "b">>
    /\ ret.out = RefOf(<<"b", " ", "b">>, ret.key)
    /\ ret.key = S3Key("portrait", arg.rnd)

\* A bucket name with a comma does not come back.
C18_CommaBreaks ==
    ret.called /\ (\E i \in 1..Len(arg.bucket) : arg.bucket[i] = ",")
    => ret.out # RefOf(arg.bucket, ret.key)

Running(p) == run[p].kind = "upload" /\ run[p].pc \notin {"idle", "done"}

\* The file at path is there and was written from request k's data.
HoldsFile(path, kind, k) ==
    \E f \in staging :
        /\ f.path = path
        /\ f.content = [kind |-> kind, req |-> k]
        /\ \A g \in staging : g.path = path => g = f

\* C19: each run exclusively owns its two staged artifacts: under every
\* interleaving, the staged original and the processed artifact of a run in
\* progress are present and hold that run's own data (no other run has
\* overwritten or removed them), the processed artifact was made from the
\* run's own original at the path derived from it, and no two runs in
\* progress share a path.
C19_ExclusiveArtifacts ==
    /\ \A p \in Procs :
          Running(p)
          => /\ run[p].tempName # <<>>
                => HoldsFile(run[p].tempName, "upload", run[p].req)
             /\ run[p].processedPath # <<>>
                => /\ run[p].processedPath = OutPath(run[p].tempName)
                   /\ HoldsFile(run[p].processedPath, "faststart", run[p].req)
    /\ \A p, q \in Procs :
          p # q /\ Running(p) /\ Running(q) /\ run[p].tempName # <<>>
          => /\ run[p].tempName # run[q].tempName
             /\ run[p].tempName # run[q].processedPath
             /\ OutPath(run[p].tempName) # run[q].tempName
    /\ \A o \in store : o.body.req = o.putBy

\* Two runs in progress at once, each holding both of its artifacts.
C19_Witness ==
    \E p, q \in Procs :
        /\ p # q /\ Running(p) /\ Running(q)
        /\ run[p].processedPath # <<>> /\ run[q].processedPath # <<>>
        /\ HoldsFile(run[p].processedPath, "faststart", run[p].req)
        /\ HoldsFile(run[q].processedPath, "faststart", run[q].req)

SignFailed(p) == run[p].kind = "upload" /\ run[p].fault = "sign"

\* C20 as stated: after a signing failure the caller has 500, the object is
\* in the store and the persisted reference is the run's (bucket, key).
C20_ReferenceIsNew ==
    \A p \in Procs :
        SignFailed(p)
        => /\ Done(p) /\ run[p].status = 500
           /\ HasObject(store, s3Bucket, run[p].s3Key)
           /\ ParseRef(db[run[p].vid].VideoURL) = RefOf(s3Bucket, run[p].s3Key)

C20_Durable ==
    \A p \in Procs :
        SignFailed(p)
        => /\ Done(p) /\ run[p].status = 500
           /\ run[p].recorded
           /\ HasObject(store, s3Bucket, run[p].s3Key)
           /\ writer = run[p].req
              => ParseRef(db[run[p].vid].VideoURL)
                   = RefOf(s3Bucket, run[p].s3Key)

C20_LaterRead ==
    \A p, q \in Procs :
        ( /\ SignFailed(p) /\ writer = run[p].req
          /\ run'[q].kind = "read" /\ run'[q].req = nreq + 1
          /\ run'[q].vid = run[p].vid /\ run'[q].status = 200 )
        => UrlAddresses(run'[q].respURL, s3Bucket, run[p].s3Key)

\* C20: if signing fails at the end of an upload run, the caller receives
\* 500 although the run's effects are durable: the object is in the store
\* and the run has written the reference (bucket, key); as long as no other
\* upload has replaced that reference, it is the persisted one and a later
\* read of the resource materializes the newly uploaded object.
C20_DurableDespite500 == [](C20_Durable) /\ [][C20_LaterRead]_vars

\* The upload was answered 500 and a later read returned its object.
C20_Witness ==
    \E p, q \in Procs :
        /\ SignFailed(p) /\ Done(p) /\ run[p].status = 500
        /\ writer = run[p].req
        /\ run[q].kind = "read" /\ run[q].req > run[p].req
        /\ run[q].status = 200
        /\ UrlAddresses(run[q].respURL, s3Bucket, run[p].s3Key)

\* The fields of a row other than the video reference.
OtherFields == {"ID", "UserID", "ThumbnailURL"}

\* C21: a video upload changes only the video reference of the row: under
\* every interleaving with another request that updates a different field of
\* the same row between the run's initial read and its persistence step (a
\* thumbnail upload setting the thumbnail URL), every field other than the
\* video reference holds, after the persistence step, the value it had
\* immediately before that step.
C21_OtherFieldsKept ==
    [][\A p \in Procs :
          ( /\ run[p].kind = "upload" /\ run[p].pc = "record"
            /\ run'[p].recorded )
          => \A f \in OtherFields :
                db'[run[p].vid][f] = db[run[p].vid][f]]_vars

\* Without a write to the row since the run read it, the persistence step
\* changes the video reference only.
C21_KeptWhenSnapshotCurrent ==
    [][\A p \in Procs :
          ( /\ run[p].kind = "upload" /\ run[p].pc = "record"
            /\ run'[p].recorded
            /\ \A f \in OtherFields : run[p].video[f] = db[run[p].vid][f] )
          => \A f \in OtherFields :
                db'[run[p].vid][f] = db[run[p].vid][f]]_vars

\* The run has put its object.
Published(r) ==
    r.kind = "upload" /\ r.puts = 1 /\ r.fault # "put" /\ r.pc # "put"

\* No step deletes from the store, and an object is replaced only by a run
\* that drew the same random bytes as the run that had put it.
C22_NoDeleteNoOverwrite ==
    \A o \in store :
        /\ HasObject(store', o.bucket, o.key)
        /\ o \notin store'
           => \E p \in Procs :
                 /\ run[p].pc = "put" /\ run'[p].puts = 1
                 /\ run[p].req # o.putBy
                 /\ KeyForm(o.key, o.key[1], run[p].rnd)

\* The object of an earlier run stays in the store when a later run with
\* other random bytes has published and overwritten the reference, and the
\* resource then refers to the later run's object only.
C22_EarlierObjectKept ==
    \A p, q \in Procs :
        ( /\ p # q /\ Published(run[p]) /\ Published(run[q])
          /\ run[p].req < run[q].req )
        => /\ HasObject(store, s3Bucket, run[p].s3Key)
           /\ HasObject(store, s3Bucket, run[q].s3Key)
           /\ run[p].rnd # run[q].rnd
              => /\ run[p].s3Key # run[q].s3Key
                 /\ \A o \in store : o.key = run[p].s3Key => o.putBy # run[q].req
                 /\ writer = run[q].req /\ run[p].vid = run[q].vid
                    => /\ ParseRef(db[run[q].vid].VideoURL)
                            = RefOf(s3Bucket, run[q].s3Key)
                       /\ ParseRef(db[run[p].vid].VideoURL)
                            # RefOf(s3Bucket, run[p].s3Key)

\* C22: every run derives a fresh key and never deletes from the store:
\* assuming distinct random draws, a later upload to the same resource never
\* overwrites or removes the object published by an earlier run, so after
\* the reference is overwritten the earlier object is still in the store and
\* no longer referenced by the resource.
C22_FreshKeyNoDelete ==
    [](C22_EarlierObjectKept) /\ [][C22_NoDeleteNoOverwrite]_vars

\* The earlier run's object is still stored, with its own body, after the
\* later run replaced the reference.
C22_Witness ==
    \E p, q \in Procs :
        /\ UploadDone(p) /\ run[p].status = 200
        /\ Published(run[q]) /\ run[q].recorded
        /\ run[p].req < run[q].req /\ run[p].vid = run[q].vid
        /\ run[p].rnd # run[q].rnd
        /\ writer = run[q].req
        /\ \E o \in store :
              /\ o.bucket = s3Bucket /\ o.key = run[p].s3Key
              /\ o.putBy = run[p].req
        /\ ParseRef(db[run[q].vid].VideoURL) = RefOf(s3Bucket, run[q].s3Key)

====
